---- MODULE Spec2Model ----
(***************************************************************************)
(* Model of the hierarchical course scheduler                              *)
(* (Backend/app/core/scheduler.py): HierarchicalScheduler and              *)
(* generate_schedule.  The CP-SAT solver is an external collaborator: a    *)
(* call of solver.Solve either returns some assignment that satisfies      *)
(* every constraint the builder posted (OPTIMAL / FEASIBLE), or no         *)
(* solution (INFEASIBLE, or UNKNOWN when the wall-clock limit is hit).     *)
(* Fields that are carried through untouched (title, period string) are    *)
(* not part of the records.                                                *)
(***************************************************************************)
EXTENDS Integers, Sequences, FiniteSets, TLC

\* ------------------------------------------------------------------ bounds
MaxCourses == 2
MaxSessions == 5
MaxPhaseSessions == 3

\* ------------------------------------------------------- input value pools
Codes      == {"A", "B"}
Programs   == {"CS", "IT"}
Years      == {1}
YearLevels == 0 .. 5
ProcessIds == {"", "p1"}

CourseRecords(codes, programs, lecs, labs, blocks) ==
    [courseCode : codes, program : programs, yearLevel : Years,
     unitsLecture : lecs, unitsLab : labs, blocks : blocks]

CourseRecordsOfYears(codes, programs, years, lecs, labs, blocks) ==
    [courseCode : codes, program : programs, yearLevel : years,
     unitsLecture : lecs, unitsLab : labs, blocks : blocks]

Catalogs(lists, lecture_rooms, ends, daylists) ==
    [courses : lists,
     rooms : [lecture : lecture_rooms, lab : {<<"B1">>}],
     time_settings : [start_time : {8}, end_time : ends],
     days : daylists]

SeqsUpTo(S, n) == UNION {[1..k -> S] : k \in 0..n}

\* ------------------------------------------------------- program constants
PHASE_1_FLEXIBLE == 1
PHASE_2_REGULAR  == 2
PHASE_3_CRITICAL == 3
INC_HR           == 2
LECTURE_DURATION == 2
LAB_DURATION     == 3
MAX_SLOTS        == 1000
DOMAIN_LIMIT     == 200
FAILED           == -1

RoomKinds == {"lecture", "lab"}

\* ------------------------------------------------------------------- state
VARIABLES
    \* collaborators (catalog loaders, module globals)
    catalog,            \* what load_courses / rooms / time_settings / days return
    process_id,         \* "" models None
    progress_state,     \* progress_state[process_id]; 0 before the first write
    progress_log,       \* every value written to the progress channel, in order
    schedule_dict,      \* shared result dictionary: schedule_id -> event
    \* HierarchicalScheduler fields
    all_courses, rooms, days, inc_day, total_inc, lab_starts,
    global_schedule, occupied_slots, section_occupied, schedule_id,
    courses_with_both,
    \* locals of solve() / solve_phase()
    phases,             \* sorted phase values that have courses
    phase_num,          \* 1-based position in phases of the phase being solved
    attempt,            \* 1: feasibility attempt, 2: optimize attempt
    combined_schedule,
    solver_calls,       \* number of solver.Solve calls so far
    unstripped,         \* the sorted combined schedule before its internal fields are deleted
    \* generate_schedule
    pc, ret

vars == <<catalog, process_id, progress_state, progress_log, schedule_dict,
          all_courses, rooms, days, inc_day, total_inc, lab_starts,
          global_schedule, occupied_slots, section_occupied, schedule_id,
          courses_with_both, phases, phase_num, attempt, combined_schedule,
          solver_calls, unstripped, pc, ret>>

\* ----------------------------------------------------------------- helpers
Range(f) == {f[i] : i \in DOMAIN f}

Min2(a, b) == IF a <= b THEN a ELSE b

RECURSIVE SumSeq(_)
SumSeq(s) == IF s = <<>> THEN 0 ELSE Head(s) + SumSeq(Tail(s))

RECURSIVE Flatten(_)
Flatten(ss) == IF ss = <<>> THEN <<>> ELSE Head(ss) \o Flatten(Tail(ss))

\* ascending list of the members of a set of integers (Python range / list order)
RECURSIVE SortedSeq(_)
SortedSeq(S) ==
    IF S = {} THEN <<>>
    ELSE LET m == CHOOSE x \in S : \A y \in S : x <= y
         IN <<m>> \o SortedSeq(S \ {m})

SlotsOf(start, duration) == start .. (start + duration - 1)

\* update_progress: writes only when a process id was given
ProgressWrites(values) == IF process_id # "" THEN values ELSE <<>>

ProgressAfter(values) ==
    IF ProgressWrites(values) = <<>> THEN progress_state
    ELSE values[Len(values)]

\* --------------------------------------------------------- course partition
HasLab(c) == c.unitsLab > 0
HasLecture(c) == c.unitsLecture > 0

PriorityScore(c) ==
    c.yearLevel * 1000 + (c.unitsLecture + c.unitsLab * 2) * 100
    + c.unitsLab * 50 + c.blocks * 10

\* the second clause with its "or" inside the 2 <= year_level < 4 range
PhaseOfRegrouped(c) ==
    IF c.yearLevel <= 1 /\ ~HasLab(c) THEN PHASE_1_FLEXIBLE
    ELSE IF c.yearLevel >= 2 /\ c.yearLevel < 4
            /\ (HasLab(c) \/ (~HasLab(c) /\ c.yearLevel >= 2)) THEN PHASE_2_REGULAR
    ELSE PHASE_3_CRITICAL

\* every course of year 4 and above taken as critical
PhaseOfSeniorCritical(c) ==
    IF c.yearLevel >= 4 THEN PHASE_3_CRITICAL
    ELSE IF c.yearLevel <= 1 /\ ~HasLab(c) THEN PHASE_1_FLEXIBLE
    ELSE IF HasLab(c) /\ c.yearLevel < 2 THEN PHASE_3_CRITICAL
    ELSE PHASE_2_REGULAR

PhaseOf(c) ==
    IF c.yearLevel <= 1 /\ ~HasLab(c) THEN PHASE_1_FLEXIBLE
    ELSE IF (c.yearLevel >= 2 /\ c.yearLevel < 4 /\ HasLab(c))
            \/ (~HasLab(c) /\ c.yearLevel >= 2) THEN PHASE_2_REGULAR
    ELSE PHASE_3_CRITICAL

\* the sort key without the minus sign on the score
PartitionBeforeAscendingScore(cs, i, j) ==
    \/ PhaseOf(cs[i]) < PhaseOf(cs[j])
    \/ /\ PhaseOf(cs[i]) = PhaseOf(cs[j])
       /\ \/ PriorityScore(cs[i]) < PriorityScore(cs[j])
          \/ PriorityScore(cs[i]) = PriorityScore(cs[j]) /\ i < j

\* list.sort is stable: rank by key, ties by original position
PartitionBefore(cs, i, j) ==
    \/ PhaseOf(cs[i]) < PhaseOf(cs[j])
    \/ /\ PhaseOf(cs[i]) = PhaseOf(cs[j])
       /\ \/ PriorityScore(cs[i]) > PriorityScore(cs[j])
          \/ PriorityScore(cs[i]) = PriorityScore(cs[j]) /\ i < j

\* entries keep the position of the course in the loaded list (idx) next to
\* the (phase, course) pair the code stores
prioritize_and_partition_courses(cs) ==
    [p \in 1..Len(cs) |->
        LET i == CHOOSE i \in 1..Len(cs) :
                    Cardinality({j \in 1..Len(cs) : PartitionBefore(cs, j, i)}) = p - 1
        IN [phase |-> PhaseOf(cs[i]), course |-> cs[i], idx |-> i]]

CoursesWithBoth(cs) ==
    {cs[i].courseCode : i \in {i \in 1..Len(cs) : HasLecture(cs[i]) /\ HasLab(cs[i])}}

RECURSIVE SessionCount(_)
SessionCount(cs) ==
    IF cs = <<>> THEN 0
    ELSE (Head(cs).unitsLecture + 2 * Head(cs).unitsLab) * Head(cs).blocks
         + SessionCount(Tail(cs))

\* Spec: any list of at most MaxCourses courses of one program, with at most
\* MaxSessions sessions in all and MaxPhaseSessions in the model of one phase;
\* one lecture room; one or two days of one or two hours
BaseLists ==
    {cs \in SeqsUpTo(CourseRecords(Codes, {"CS"}, {1, 2}, {0, 1}, {1, 2}), MaxCourses) :
        /\ SessionCount(cs) <= MaxSessions
        /\ \A ph \in {PHASE_1_FLEXIBLE, PHASE_2_REGULAR, PHASE_3_CRITICAL} :
              SessionCount(SelectSeq(cs, LAMBDA c : PhaseOf(c) = ph)) <= MaxPhaseSessions}

BaseCatalogs ==
    Catalogs(BaseLists, {<<"L1">>}, {9, 10}, {<<"Mon">>, <<"Mon", "Tue">>})

\* SpecContention: a lecture-only course followed by a course with lecture and
\* lab units, of the same code and of the same or of another program; one or
\* two lecture rooms; three days
ContentionLists ==
    {<<c1, c2>> : c1 \in CourseRecords({"A"}, Programs, {1}, {0}, {1}),
                  c2 \in CourseRecords({"A"}, {"CS"}, {1}, {1}, {1})}

ContentionCatalogs ==
    Catalogs(ContentionLists, {<<"L1">>, <<"L1", "L2">>}, {9, 10},
             {<<"Mon", "Tue", "Wed">>})

\* SpecCap: one course with two lecture units or with two lab units; two days
\* long enough for three laboratory meetings each
CapLists ==
    {<<c>> : c \in CourseRecords({"A"}, {"CS"}, {2}, {0}, {1})
                    \cup CourseRecords({"A"}, {"CS"}, {0}, {2}, {1})}

CapCatalogs ==
    Catalogs(CapLists, {<<"L1">>}, {9, 13}, {<<"Mon", "Tue">>})

\* SpecIntake: at most MaxCourses courses of any year level, with one lecture
\* unit, with or without a lab unit, in one or two blocks; a lecture-room list
\* that is empty or has one room; one day of one or two hours
IntakeLists ==
    SeqsUpTo(CourseRecordsOfYears({"A"}, {"CS"}, YearLevels, {1}, {0, 1}, {1, 2}),
             MaxCourses)

IntakeCatalogs ==
    Catalogs(IntakeLists, {<<>>, <<"L1">>}, {9, 10}, {<<"Mon">>})

\* SpecTermination: three courses, one for each phase (a first-year and a
\* second-year lecture-only course and a fourth-year lab-only course); two
\* days of one or two hours
TerminationLists ==
    {<<c1, c2, c3>> :
        c1 \in CourseRecordsOfYears({"A"}, {"CS"}, {1}, {1}, {0}, {1}),
        c2 \in CourseRecordsOfYears({"B"}, Programs, {2}, {1}, {0}, {1}),
        c3 \in CourseRecordsOfYears({"A"}, {"CS"}, {4}, {0}, {1}, {1})}

TerminationCatalogs ==
    Catalogs(TerminationLists, {<<"L1">>}, {9, 10}, {<<"Mon", "Tue">>})

\* ------------------------------------------------------ time discretization
\* the closing half hour counted as a slot of the day
IncDayInclusive(ts) == (ts.end_time - ts.start_time) * INC_HR + 1

IncDay(ts) == (ts.end_time - ts.start_time) * INC_HR

LabStartsEveryStart(incday, ndays) ==
    Flatten([d \in 1..ndays |->
        SortedSeq(((d - 1) * incday) .. ((d - 1) * incday + incday - 1))])

LabStarts(incday, ndays) ==
    Flatten([d \in 1..ndays |->
        SortedSeq(((d - 1) * incday) .. ((d - 1) * incday + incday - 3))])

\* --------------------------------------------------------- occupancy ledger
SectionKeyOf(x) == <<x.prog, x.yr, x.blk>>

\* a start counted as free when its first slot is
get_available_time_slots_first_slot(section_key, duration, is_lab, max_slots) ==
    LET occupied == section_occupied[section_key]
        search_space == IF is_lab THEN lab_starts
                        ELSE SortedSeq(0 .. (total_inc - duration))
        free(start) == start \notin occupied
        available == SelectSeq(search_space, free)
    IN SubSeq(available, 1, Min2(Len(available), max_slots))

\* the loop appends a free start and then leaves once it has max_slots of
\* them, so a call with max_slots < 1 still returns the first free start
get_available_time_slots(section_key, duration, is_lab, max_slots) ==
    LET occupied == section_occupied[section_key]
        search_space == IF is_lab THEN lab_starts
                        ELSE SortedSeq(0 .. (total_inc - duration))
        free(start) == SlotsOf(start, duration) \cap occupied = {}
        available == SelectSeq(search_space, free)
        kept == IF max_slots < 1 THEN 1 ELSE max_slots
    IN SubSeq(available, 1, Min2(Len(available), kept))

\* the entry of a section assigned the slots of the event, not updated with them
RECURSIVE update_section_occupied_assigns(_, _)
update_section_occupied_assigns(occ, schedule) ==
    IF schedule = <<>> THEN occ
    ELSE LET ev == Head(schedule)
             k == <<ev.program, ev.year, ev.block>>
         IN update_section_occupied_assigns(
                [occ EXCEPT ![k] = SlotsOf(ev._start_slot, ev._duration)],
                Tail(schedule))

\* union-update of both ledgers with the slots of every event of a schedule
RECURSIVE update_section_occupied(_, _)
update_section_occupied(occ, schedule) ==
    IF schedule = <<>> THEN occ
    ELSE LET ev == Head(schedule)
             k == <<ev.program, ev.year, ev.block>>
         IN update_section_occupied(
                [occ EXCEPT ![k] = @ \cup SlotsOf(ev._start_slot, ev._duration)],
                Tail(schedule))

update_occupied_slots_dropped(occ, schedule) == occ

RECURSIVE update_occupied_slots(_, _)
update_occupied_slots(occ, schedule) ==
    IF schedule = <<>> THEN occ
    ELSE LET ev == Head(schedule)
             k == <<ev._room_type, ev._room_idx>>
         IN update_occupied_slots(
                [occ EXCEPT ![k] = @ \cup SlotsOf(ev._start_slot, ev._duration)],
                Tail(schedule))

\* ------------------------------------------------------ phase model builder
BlockLetter(b) == <<"A", "B", "C", "D">>[b + 1]

\* number of meetings create_course_sessions asks create_session_type for
LectureMeetings(c) == c.unitsLecture
LabMeetingsPerUnit(c) == c.unitsLab
LabMeetings(c) == c.unitsLab * 2

\* one entry per call of create_session_type, in call order; pos is the
\* position of the course in the phase's list
GroupsOfCourse(entry, pos) ==
    LET c == entry.course
        grp(b, kind) ==
            [cidx |-> entry.idx, pos |-> pos, code |-> c.courseCode,
             prog |-> c.program, yr |-> c.yearLevel, blk |-> BlockLetter(b),
             type |-> kind,
             units |-> IF kind = "lab" THEN LabMeetings(c) ELSE LectureMeetings(c),
             duration |-> IF kind = "lab" THEN LAB_DURATION ELSE LECTURE_DURATION,
             is_lab |-> (kind = "lab")]
    IN Flatten([b1 \in 1..c.blocks |->
            (IF c.unitsLecture > 0 THEN <<grp(b1 - 1, "lecture")>> ELSE <<>>)
            \o (IF c.unitsLab > 0 THEN <<grp(b1 - 1, "lab")>> ELSE <<>>)])

PhaseCourses(p) == SelectSeq(all_courses, LAMBDA e : e.phase = p)

PhaseGroups(pcs) == Flatten([k \in 1..Len(pcs) |-> GroupsOfCourse(pcs[k], k)])

\* start candidates of one create_session_type call, with the fallback to the
\* whole search space when the ledger leaves the section no free start
AvailableStarts(g) ==
    LET filtered == get_available_time_slots(SectionKeyOf(g), g.duration,
                                             g.is_lab, MAX_SLOTS)
    IN IF filtered # <<>> THEN filtered
       ELSE IF g.is_lab THEN lab_starts
       ELSE SortedSeq(0 .. (total_inc - g.duration))

DomainValues(g) ==
    LET a == AvailableStarts(g) IN SubSeq(a, 1, Min2(Len(a), DOMAIN_LIMIT))

FailingGroups(gs) == {i \in 1..Len(gs) : AvailableStarts(gs[i]) = <<>>}

BuildOK(gs) == FailingGroups(gs) = {}

FirstFailing(gs) == CHOOSE i \in FailingGroups(gs) : \A j \in FailingGroups(gs) : i <= j

\* groups whose sessions were created before the builder returned
BuiltGroups(gs) == IF BuildOK(gs) THEN gs ELSE SubSeq(gs, 1, FirstFailing(gs) - 1)

\* courses whose create_course_sessions call returned sessions
BuiltCourses(pcs, gs) == IF BuildOK(gs) THEN Len(pcs) ELSE gs[FirstFailing(gs)].pos - 1

\* the id counter put back to its value before the attempt
IdsConsumedReset(gs) == SumSeq(<<>>)

IdsConsumed(gs) == SumSeq([i \in 1..Len(BuiltGroups(gs)) |-> BuiltGroups(gs)[i].units])

\* the sessions of a phase, numbered from first_id in creation order
PhaseSessions(gs, first_id) ==
    LET per(gi) ==
            LET g == gs[gi]
                before == SumSeq([i \in 1..(gi - 1) |-> gs[i].units])
                domain == Range(DomainValues(g))
            IN [i \in 1..g.units |->
                   [id |-> first_id + before + i - 1, cidx |-> g.cidx,
                    code |-> g.code, prog |-> g.prog, yr |-> g.yr, blk |-> g.blk,
                    type |-> g.type, duration |-> g.duration, group |-> gi,
                    domain |-> domain]]
    IN Flatten([gi \in 1..Len(gs) |-> per(gi)])

\* progress computed from the 0-based index of the course
CourseProgressBeforeCourse(idx, n, p, P) ==
    LET course_progress_start == 50 + ((p - 1) * 40) \div P
        course_progress_end == 50 + (p * 40) \div P
    IN course_progress_start
       + ((idx - 1) * (course_progress_end - course_progress_start)) \div n

\* progress written after the idx-th (1-based) course of n was built
CourseProgress(idx, n, p, P) ==
    LET course_progress_start == 50 + ((p - 1) * 40) \div P
        course_progress_end == 50 + (p * 40) \div P
    IN course_progress_start
       + (idx * (course_progress_end - course_progress_start)) \div n

BuildProgress(built, n, p, P) == [i \in 1..built |-> CourseProgress(i, n, p, P)]

\* ------------------------------------------------------------------ solver
Overlap(s1, d1, s2, d2) == s1 < s2 + d2 /\ s2 < s1 + d1

\* the offset of the start in its day taken for the day
DayOfStartOffset(s) == s % inc_day

\* dvar: the day d in 0..len(days)-1 with d*inc_day <= s < (d+1)*inc_day
DayOfStart(s) == s \div inc_day

MaxPerDaySwapped(is_lab) == IF is_lab THEN 1 ELSE 2

\* add_block_day_constraints: per-day limit of one create_session_type call
MaxPerDay(is_lab) == IF is_lab THEN 2 ELSE 1

NoPriorFixedIntervals(schedule) == {}

\* carry-forward fixed intervals: one per event of global_schedule whose room
\* type is a key of rooms, in the bucket of its (room type, room index)
PriorFixedIntervals(schedule) ==
    {[rt |-> schedule[i]._room_type, ri |-> schedule[i]._room_idx,
      ss |-> schedule[i]._start_slot, dd |-> schedule[i]._duration, n |-> i] :
        i \in {i \in 1..Len(schedule) : schedule[i]._room_type \in DOMAIN rooms}}

\* AddNoOverlap over the fixed intervals of one bucket among themselves
FixedIntervalsDisjoint(fixed) ==
    \A f1, f2 \in fixed :
        (f1.n # f2.n /\ f1.rt = f2.rt /\ f1.ri = f2.ri)
            => ~Overlap(f1.ss, f1.dd, f2.ss, f2.dd)

\* add_room_consistency groups the phase's sessions by this key
RoomConsistencyKey(sess) == <<sess.code, sess.prog, sess.yr, sess.blk, sess.type>>

\* the constraints that tie session k (given start st and room rm) to the
\* sessions 1..k-1 already assigned in a, and to the fixed intervals
Compatible(sessions, a, k, st, rm, fixed) ==
    LET sk == sessions[k]
    IN /\ st + sk.duration <= total_inc                 \* e = s + duration, e <= total_inc
       /\ DayOfStart(st) \in 0 .. (Len(days) - 1)         \* domain of dvar
       /\ \A f \in fixed :                                \* room bucket, fixed intervals
             (f.rt = sk.type /\ f.ri = rm) => ~Overlap(st, sk.duration, f.ss, f.dd)
       /\ \A j \in 1..(k - 1) :
             LET sj == sessions[j]
             IN /\ (SectionKeyOf(sj) = SectionKeyOf(sk))  \* section no-overlap
                      => ~Overlap(st, sk.duration, a[j].start, sj.duration)
                /\ (sj.type = sk.type /\ a[j].room = rm)  \* room no-overlap
                      => ~Overlap(st, sk.duration, a[j].start, sj.duration)
                /\ (RoomConsistencyKey(sj) = RoomConsistencyKey(sk))
                      => a[j].room = rm
       /\ (Cardinality({j \in 1..Len(sessions) : sessions[j].group = sk.group}) > 1)
             => Cardinality({j \in 1..(k - 1) :                \* per-day limit
                                /\ sessions[j].group = sk.group
                                /\ DayOfStart(a[j].start) = DayOfStart(st)}) + 1
                   <= MaxPerDay(sk.type = "lab")

\* all assignments <<[start, room], ...>> of the first k sessions that satisfy
\* the constraints among them
RECURSIVE Assignments(_, _, _)
Assignments(sessions, k, fixed) ==
    IF k = 0 THEN {<<>>}
    ELSE UNION {
            {Append(a, [start |-> x[1], room |-> x[2]]) :
                x \in {x \in sessions[k].domain
                             \X (0 .. (Len(rooms[sessions[k].type]) - 1)) :
                         Compatible(sessions, a, k, x[1], x[2], fixed)}} :
            a \in Assignments(sessions, k - 1, fixed)}

\* the solutions solver.Solve may return for the model of a phase
Solutions(sessions) ==
    LET fixed == PriorFixedIntervals(global_schedule)
    IN IF FixedIntervalsDisjoint(fixed)
       THEN Assignments(sessions, Len(sessions), fixed)
       ELSE {}

\* ------------------------------------------------------- solution extractor
DisplayCode(sess) ==
    IF sess.code \in courses_with_both
    THEN <<sess.code, IF sess.type = "lecture" THEN "A" ELSE "L">>
    ELSE <<sess.code>>

extract_phase_solution(sessions, sol) ==
    [i \in 1..Len(sessions) |->
        LET sess == sessions[i]
            room_idx == sol[i].room
            day_idx == DayOfStart(sol[i].start)
        IN [schedule_id |-> sess.id,
            courseCode |-> DisplayCode(sess),
            baseCourseCode |-> sess.code,
            program |-> sess.prog,
            year |-> sess.yr,
            session |-> IF sess.type = "lecture" THEN "Lecture" ELSE "Laboratory",
            block |-> sess.blk,
            day |-> days[day_idx + 1],
            room |-> rooms[sess.type][room_idx + 1],
            _start_slot |-> sol[i].start,
            _duration |-> sess.duration,
            _room_type |-> sess.type,
            _room_idx |-> room_idx,
            _course |-> sess.cidx]]     \* ghost: position of the course record

\* ------------------------------------------------------------ final output
DayIndex(name) == (CHOOSE i \in 1..Len(days) : days[i] = name
                        /\ \A j \in 1..(i - 1) : days[j] # name) - 1

SortBefore(sch, i, j) ==
    \/ DayIndex(sch[i].day) < DayIndex(sch[j].day)
    \/ /\ DayIndex(sch[i].day) = DayIndex(sch[j].day)
       /\ \/ sch[i]._start_slot < sch[j]._start_slot
          \/ sch[i]._start_slot = sch[j]._start_slot /\ i < j

SortScheduleSkipped(sch) == sch

SortSchedule(sch) ==
    [p \in 1..Len(sch) |->
        sch[CHOOSE i \in 1..Len(sch) :
                Cardinality({j \in 1..Len(sch) : SortBefore(sch, j, i)}) = p - 1]]

StripInternal(ev) ==
    [schedule_id |-> ev.schedule_id, courseCode |-> ev.courseCode,
     baseCourseCode |-> ev.baseCourseCode, program |-> ev.program,
     year |-> ev.year, session |-> ev.session, block |-> ev.block,
     day |-> ev.day, room |-> ev.room]

\* {e['schedule_id']: e for e in schedule}: a later event replaces an earlier
\* one with the same id
DictOf(schedule) ==
    [id \in {schedule[i].schedule_id : i \in 1..Len(schedule)} |->
        schedule[CHOOSE i \in 1..Len(schedule) :
                    /\ schedule[i].schedule_id = id
                    /\ \A j \in (i + 1)..Len(schedule) : schedule[j].schedule_id # id]]

\* ------------------------------------------------------------ initial state
RoomIdxs == 0 .. 3
SectionKeys == Programs \X YearLevels \X {BlockLetter(b) : b \in 0..3}
RoomKeys == RoomKinds \X RoomIdxs

\* an entry a previous run left in the shared result dictionary
StaleEvent ==
    [schedule_id |-> 1, courseCode |-> <<"OLD">>, baseCourseCode |-> "OLD",
     program |-> "CS", year |-> 1, session |-> "Lecture", block |-> "A",
     day |-> "Mon", room |-> "L1"]

\* the result dictionary before the run: empty, or the result of an earlier run
PreviousDicts == {<<>>, (1 :> StaleEvent)}

NoReturn == [kind |-> "none"]
Impossible == [kind |-> "impossible"]
ListOf(events) == [kind |-> "list", events |-> events]

InitWith(catalogs, pids, dicts) ==
    /\ catalog \in catalogs
    /\ process_id \in pids
    /\ progress_state = 0
    /\ progress_log = <<>>
    /\ schedule_dict \in dicts
    /\ all_courses = <<>>
    /\ rooms = <<>>
    /\ days = <<>>
    /\ inc_day = 0
    /\ total_inc = 0
    /\ lab_starts = <<>>
    /\ global_schedule = <<>>
    /\ occupied_slots = [k \in RoomKeys |-> {}]
    /\ section_occupied = [k \in SectionKeys |-> {}]
    /\ schedule_id = 1
    /\ courses_with_both = {}
    /\ phases = <<>>
    /\ phase_num = 0
    /\ attempt = 1
    /\ combined_schedule = <<>>
    /\ solver_calls = 0
    /\ unstripped = <<>>
    /\ pc = "start"
    /\ ret = NoReturn

Init == InitWith(BaseCatalogs, ProcessIds, PreviousDicts)
InitContention == InitWith(ContentionCatalogs, {"p1"}, {(1 :> StaleEvent)})
InitCap == InitWith(CapCatalogs, {"p1"}, {(1 :> StaleEvent)})
InitIntake == InitWith(IntakeCatalogs, {"p1"}, {<<>>})
InitTermination == InitWith(TerminationCatalogs, {"p1"}, {<<>>})

\* ------------------------------------------------------------------ actions
WriteProgress(values) ==
    /\ progress_log' = progress_log \o ProgressWrites(values)
    /\ progress_state' = ProgressAfter(values)

\* load_data(): every loader returns
LoadData ==
    /\ pc = "start"
    /\ all_courses' = prioritize_and_partition_courses(catalog.courses)
    /\ courses_with_both' = CoursesWithBoth(catalog.courses)
    /\ rooms' = catalog.rooms
    /\ days' = catalog.days
    /\ inc_day' = IncDay(catalog.time_settings)
    /\ total_inc' = IncDay(catalog.time_settings) * Len(catalog.days)
    /\ lab_starts' = LabStarts(IncDay(catalog.time_settings), Len(catalog.days))
    /\ WriteProgress(<<5, 15, 25, 35, 45, 50>>)
    /\ pc' = "loaded"
    /\ UNCHANGED <<catalog, process_id, schedule_dict, global_schedule,
                   occupied_slots, section_occupied, schedule_id, phases,
                   phase_num, attempt, combined_schedule, solver_calls,
                   unstripped, ret>>

\* an except clause that also empties the result dictionary
LoadRaisesClearsDict ==
    /\ pc = "start"
    /\ \E k \in 1..4 :
        /\ all_courses' = IF k > 1 THEN prioritize_and_partition_courses(catalog.courses)
                          ELSE all_courses
        /\ courses_with_both' = IF k > 1 THEN CoursesWithBoth(catalog.courses)
                                ELSE courses_with_both
        /\ rooms' = IF k > 2 THEN catalog.rooms ELSE rooms
        /\ WriteProgress(SubSeq(<<5, 15, 25, 35>>, 1, k) \o <<FAILED>>)
    /\ schedule_dict' = <<>>
    /\ pc' = "done"
    /\ ret' = Impossible
    /\ UNCHANGED <<catalog, process_id, days, inc_day, total_inc,
                   lab_starts, global_schedule, occupied_slots, section_occupied,
                   schedule_id, phases, phase_num, attempt, combined_schedule,
                   solver_calls, unstripped>>

\* load_data(): the k-th loader (courses, rooms, time settings, days) raises;
\* generate_schedule's except clause writes -1 and returns "impossible"
LoadRaises ==
    /\ pc = "start"
    /\ \E k \in 1..4 :
        /\ all_courses' = IF k > 1 THEN prioritize_and_partition_courses(catalog.courses)
                          ELSE all_courses
        /\ courses_with_both' = IF k > 1 THEN CoursesWithBoth(catalog.courses)
                                ELSE courses_with_both
        /\ rooms' = IF k > 2 THEN catalog.rooms ELSE rooms
        /\ WriteProgress(SubSeq(<<5, 15, 25, 35>>, 1, k) \o <<FAILED>>)
    /\ pc' = "done"
    /\ ret' = Impossible
    /\ UNCHANGED <<catalog, process_id, schedule_dict, days, inc_day, total_inc,
                   lab_starts, global_schedule, occupied_slots, section_occupied,
                   schedule_id, phases, phase_num, attempt, combined_schedule,
                   solver_calls, unstripped>>

\* solve(): progress 52 and the grouping of the courses by phase
SolveBegin ==
    /\ pc = "loaded"
    /\ WriteProgress(<<52>>)
    /\ phases' = SortedSeq({all_courses[i].phase : i \in 1..Len(all_courses)})
    /\ phase_num' = 1
    /\ attempt' = 1
    /\ combined_schedule' = <<>>
    /\ pc' = IF all_courses = <<>> THEN "finish" ELSE "phase"
    /\ UNCHANGED <<catalog, process_id, schedule_dict, all_courses, rooms, days,
                   inc_day, total_inc, lab_starts, global_schedule,
                   occupied_slots, section_occupied, schedule_id,
                   courses_with_both, solver_calls, unstripped, ret>>

CurCourses == PhaseCourses(phases[phase_num])
CurGroups == PhaseGroups(CurCourses)

\* a failed second attempt that lets solve() go on to the final sort
AttemptFailedKeepsGoing(writes) ==
    IF attempt = 1
    THEN /\ attempt' = 2
         /\ WriteProgress(writes)
         /\ UNCHANGED <<pc, ret>>
    ELSE /\ attempt' = attempt
         /\ WriteProgress(writes)
         /\ pc' = "finish"
         /\ ret' = ret

\* a failed feasibility attempt that fails the phase with no optimize attempt
AttemptFailedNoRetry(writes) ==
    /\ attempt' = attempt
    /\ WriteProgress(writes \o <<FAILED>>)
    /\ pc' = "done"
    /\ ret' = Impossible

\* a failed optimize attempt followed by another optimize attempt
AttemptFailedRetriesAgain(writes) ==
    /\ attempt' = 2
    /\ WriteProgress(writes)
    /\ UNCHANGED <<pc, ret>>

\* what solve_phase() and solve() do once an attempt has returned None: the
\* first attempt is followed by the optimize attempt, the second one fails the run
AttemptFailed(writes) ==
    IF attempt = 1
    THEN /\ attempt' = 2
         /\ WriteProgress(writes)
         /\ UNCHANGED <<pc, ret>>
    ELSE /\ attempt' = attempt
         /\ WriteProgress(writes \o <<FAILED>>)
         /\ pc' = "done"
         /\ ret' = Impossible

\* _solve_phase_attempt(): create_course_sessions returns None
BuilderFails ==
    /\ pc = "phase"
    /\ LET gs == CurGroups
       IN /\ ~BuildOK(gs)
          /\ schedule_id' = schedule_id + IdsConsumed(gs)
          /\ AttemptFailed(BuildProgress(BuiltCourses(CurCourses, gs), Len(CurCourses),
                                         phase_num, Len(phases)))
    /\ UNCHANGED <<catalog, process_id, schedule_dict, all_courses, rooms, days,
                   inc_day, total_inc, lab_starts, global_schedule,
                   occupied_slots, section_occupied, courses_with_both, phases,
                   phase_num, combined_schedule, solver_calls, unstripped>>

\* a solver status other than OPTIMAL / FEASIBLE answered with an empty
\* phase schedule
SolverFailsReturnsEmpty ==
    /\ pc = "phase"
    /\ LET gs == CurGroups
       IN /\ BuildOK(gs)
          /\ schedule_id' = schedule_id + IdsConsumed(gs)
          /\ WriteProgress(BuildProgress(Len(CurCourses), Len(CurCourses),
                                         phase_num, Len(phases)))
    /\ solver_calls' = solver_calls + 1
    /\ attempt' = 1
    /\ phase_num' = phase_num + 1
    /\ pc' = IF phase_num = Len(phases) THEN "finish" ELSE "phase"
    /\ UNCHANGED <<catalog, process_id, schedule_dict, all_courses, rooms, days,
                   inc_day, total_inc, lab_starts, global_schedule,
                   occupied_slots, section_occupied, courses_with_both, phases,
                   combined_schedule, unstripped, ret>>

\* the occupancy update made before the solver status is looked at, with the
\* first start of every session's domain
SolverFailsRecordsOccupancy ==
    /\ pc = "phase"
    /\ LET gs == CurGroups
           sessions == PhaseSessions(gs, schedule_id)
       IN /\ BuildOK(gs)
          /\ schedule_id' = schedule_id + IdsConsumed(gs)
          /\ section_occupied' =
                [k \in SectionKeys |->
                    section_occupied[k] \cup
                    UNION {SlotsOf(CHOOSE x \in sessions[n].domain :
                                       \A y \in sessions[n].domain : x <= y,
                                   sessions[n].duration) :
                             n \in {n \in 1..Len(sessions) :
                                       SectionKeyOf(sessions[n]) = k}}]
          /\ AttemptFailed(BuildProgress(Len(CurCourses), Len(CurCourses),
                                         phase_num, Len(phases)))
    /\ solver_calls' = solver_calls + 1
    /\ UNCHANGED <<catalog, process_id, schedule_dict, all_courses, rooms, days,
                   inc_day, total_inc, lab_starts, global_schedule,
                   occupied_slots, courses_with_both, phases,
                   phase_num, combined_schedule, unstripped>>

\* _solve_phase_attempt(): the model is built, the solver returns no solution
SolverFails ==
    /\ pc = "phase"
    /\ LET gs == CurGroups
       IN /\ BuildOK(gs)
          /\ schedule_id' = schedule_id + IdsConsumed(gs)
          /\ AttemptFailed(BuildProgress(Len(CurCourses), Len(CurCourses),
                                         phase_num, Len(phases)))
    /\ solver_calls' = solver_calls + 1
    /\ UNCHANGED <<catalog, process_id, schedule_dict, all_courses, rooms, days,
                   inc_day, total_inc, lab_starts, global_schedule,
                   occupied_slots, section_occupied, courses_with_both, phases,
                   phase_num, combined_schedule, unstripped>>

\* _solve_phase_attempt(): the solver returns a solution; the events are
\* extracted and committed, and solve() appends them and goes to the next phase
SolverSucceeds ==
    /\ pc = "phase"
    /\ LET gs == CurGroups
           sessions == PhaseSessions(gs, schedule_id)
       IN /\ BuildOK(gs)
          /\ \E sol \in Solutions(sessions) :
               LET phase_schedule == extract_phase_solution(sessions, sol)
               IN /\ section_occupied' =
                        update_section_occupied(section_occupied, phase_schedule)
                  /\ occupied_slots' =
                        update_occupied_slots(occupied_slots, phase_schedule)
                  /\ combined_schedule' = combined_schedule \o phase_schedule
                  /\ global_schedule' = combined_schedule \o phase_schedule
          /\ schedule_id' = schedule_id + IdsConsumed(gs)
          /\ WriteProgress(BuildProgress(Len(CurCourses), Len(CurCourses),
                                         phase_num, Len(phases)))
    /\ solver_calls' = solver_calls + 1
    /\ attempt' = 1
    /\ phase_num' = phase_num + 1
    /\ pc' = IF phase_num = Len(phases) THEN "finish" ELSE "phase"
    /\ UNCHANGED <<catalog, process_id, schedule_dict, all_courses, rooms, days,
                   inc_day, total_inc, lab_starts, courses_with_both, phases,
                   unstripped, ret>>

\* solve(): sort, delete the internal fields, progress 95, return the list
Finish ==
    /\ pc = "finish"
    /\ unstripped' = SortSchedule(combined_schedule)
    /\ combined_schedule' = [i \in 1..Len(combined_schedule) |->
                                StripInternal(SortSchedule(combined_schedule)[i])]
    /\ global_schedule' = [i \in 1..Len(global_schedule) |->
                                StripInternal(global_schedule[i])]
    /\ WriteProgress(<<95>>)
    /\ pc' = "clear"
    /\ UNCHANGED <<catalog, process_id, schedule_dict, all_courses, rooms, days,
                   inc_day, total_inc, lab_starts, occupied_slots,
                   section_occupied, schedule_id, courses_with_both, phases,
                   phase_num, attempt, solver_calls, ret>>

\* an empty schedule taken for a failed run
ClearDictUnlessEmpty ==
    /\ pc = "clear"
    /\ IF combined_schedule = <<>>
       THEN /\ ret' = Impossible
            /\ pc' = "done"
            /\ UNCHANGED schedule_dict
       ELSE /\ schedule_dict' = <<>>
            /\ pc' = "update"
            /\ UNCHANGED ret
    /\ UNCHANGED <<catalog, process_id, progress_state, progress_log, all_courses,
                   rooms, days, inc_day, total_inc, lab_starts, global_schedule,
                   occupied_slots, section_occupied, schedule_id,
                   courses_with_both, phases, phase_num, attempt,
                   combined_schedule, solver_calls, unstripped>>

\* generate_schedule(): the schedule is not "impossible"; schedule_dict.clear()
ClearDict ==
    /\ pc = "clear"
    /\ schedule_dict' = <<>>
    /\ pc' = "update"
    /\ UNCHANGED <<catalog, process_id, progress_state, progress_log, all_courses,
                   rooms, days, inc_day, total_inc, lab_starts, global_schedule,
                   occupied_slots, section_occupied, schedule_id,
                   courses_with_both, phases, phase_num, attempt,
                   combined_schedule, solver_calls, unstripped, ret>>

\* generate_schedule(): schedule_dict.update(...), progress 100, return
UpdateDict ==
    /\ pc = "update"
    /\ schedule_dict' = DictOf(combined_schedule)
    /\ WriteProgress(<<100>>)
    /\ ret' = ListOf(combined_schedule)
    /\ pc' = "done"
    /\ UNCHANGED <<catalog, process_id, all_courses, rooms, days, inc_day,
                   total_inc, lab_starts, global_schedule, occupied_slots,
                   section_occupied, schedule_id, courses_with_both, phases,
                   phase_num, attempt, combined_schedule, solver_calls,
                   unstripped>>

Next ==
    \/ LoadData
    \/ LoadRaises
    \/ SolveBegin
    \/ BuilderFails
    \/ SolverFails
    \/ SolverSucceeds
    \/ Finish
    \/ ClearDict
    \/ UpdateDict

Spec == Init /\ [][Next]_vars
SpecContention == InitContention /\ [][Next]_vars
SpecCap == InitCap /\ [][Next]_vars
SpecIntake == InitIntake /\ [][Next]_vars

\* the calls of generate_schedule run one after the other in one thread, and
\* every solver.Solve call returns within its max_time_in_seconds
\* Weak fairness of the attempt step BuilderFails \/ SolverFails \/
\* SolverSucceeds with its enabling condition written out: in every state with
\* pc = "phase" one of BuilderFails (the model cannot be built) and SolverFails
\* (it can) is enabled, and the attempt steps are the only steps [Next]_vars
\* allows from such a state.
AttemptFairness == []<>(pc # "phase") \/ []<><<pc = "phase">>_vars

SpecTermination ==
    /\ InitTermination
    /\ [][Next]_vars
    /\ WF_vars(LoadData \/ LoadRaises \/ SolveBegin \/ Finish \/ ClearDict \/ UpdateDict)
    /\ AttemptFairness

\* ================================================================== claims
RunSucceeded == pc = "done" /\ ret.kind = "list"

EventsOverlap(e1, e2) ==
    Overlap(e1._start_slot, e1._duration, e2._start_slot, e2._duration)

EventPhase(ev) == PhaseOf(catalog.courses[ev._course])

SameRoom(e1, e2) == e1._room_type = e2._room_type /\ e1._room_idx = e2._room_idx

SameSection(e1, e2) ==
    e1.program = e2.program /\ e1.year = e2.year /\ e1.block = e2.block

ExpectedSessions(ph) ==
    SessionCount(SelectSeq(catalog.courses, LAMBDA c : PhaseOf(c) = ph))

EventsOf(sch, i, blk, kind) ==
    {n \in 1..Len(sch) : /\ sch[n]._course = i
                         /\ sch[n].block = blk
                         /\ sch[n].session = kind}

\* C1 (room exclusivity): in the schedule of a successful run, two distinct
\* events in the same (room kind, room index) occupy disjoint slot intervals,
\* whether they were scheduled in the same phase or in different phases.
C1_RoomExclusivity ==
    RunSucceeded =>
        \A i, j \in 1..Len(unstripped) :
            (i < j /\ SameRoom(unstripped[i], unstripped[j]))
                => ~EventsOverlap(unstripped[i], unstripped[j])

\* a successful run in which two events of different phases and of different
\* sections were put in the same room
C1_Witness ==
    /\ RunSucceeded
    /\ \E i, j \in 1..Len(unstripped) :
        /\ EventPhase(unstripped[i]) # EventPhase(unstripped[j])
        /\ ~SameSection(unstripped[i], unstripped[j])
        /\ SameRoom(unstripped[i], unstripped[j])

\* C2 (section exclusivity): in the schedule of a successful run, two distinct
\* events of the same (program, year, block) occupy disjoint slot intervals,
\* also across phases and also when a start domain came from the fallback.
C2_SectionExclusivity ==
    RunSucceeded =>
        \A i, j \in 1..Len(unstripped) :
            (i < j /\ SameSection(unstripped[i], unstripped[j]))
                => ~EventsOverlap(unstripped[i], unstripped[j])

\* C3 (day confinement): the first and the last slot of every event of a
\* successful run are on the same day.
C3_DayConfinement ==
    RunSucceeded =>
        \A i \in 1..Len(unstripped) :
            unstripped[i]._start_slot \div inc_day
                = (unstripped[i]._start_slot + unstripped[i]._duration - 1) \div inc_day

\* C4 as stated (meeting count): per course and block, the number of Lecture
\* events is units_lecture and the number of Laboratory events is units_lab.
C4_MeetingCount ==
    RunSucceeded =>
        \A i \in 1..Len(catalog.courses) :
            \A b \in 0..(catalog.courses[i].blocks - 1) :
                /\ Cardinality(EventsOf(unstripped, i, BlockLetter(b), "Lecture"))
                      = catalog.courses[i].unitsLecture
                /\ Cardinality(EventsOf(unstripped, i, BlockLetter(b), "Laboratory"))
                      = catalog.courses[i].unitsLab

\* C4 amended: per course and block, the number of Lecture events is
\* units_lecture and the number of Laboratory events is 2 * units_lab, and
\* the returned list has no other events.
C4_MeetingCountAmended ==
    RunSucceeded =>
        /\ \A i \in 1..Len(catalog.courses) :
            \A b \in 0..(catalog.courses[i].blocks - 1) :
                /\ Cardinality(EventsOf(unstripped, i, BlockLetter(b), "Lecture"))
                      = catalog.courses[i].unitsLecture
                /\ Cardinality(EventsOf(unstripped, i, BlockLetter(b), "Laboratory"))
                      = 2 * catalog.courses[i].unitsLab
        /\ Len(ret.events) = SessionCount(catalog.courses)
        /\ Len(unstripped) = Len(ret.events)

\* a successful run with a course of one lecture and one lab unit: one
\* Lecture event and two Laboratory events
C4_Witness ==
    /\ RunSucceeded
    /\ \E i \in 1..Len(catalog.courses) :
        /\ catalog.courses[i].unitsLab = 1
        /\ Cardinality(EventsOf(unstripped, i, "A", "Lecture")) = 1
        /\ Cardinality(EventsOf(unstripped, i, "A", "Laboratory")) = 2

\* C5 (all-or-nothing): a step that ends the run out of a phase writes -1
\* last, returns "impossible", leaves the phase counter on the failed phase
\* and the result dictionary untouched; a returned list holds the events of
\* every phase, and a run that returned "impossible" never has a list.
C5_StepFails ==
    (pc = "phase" /\ pc' = "done") =>
        /\ ret' = Impossible
        /\ (process_id # "") =>
              /\ progress_state' = FAILED
              /\ progress_log'[Len(progress_log')] = FAILED
        /\ phase_num' = phase_num
        /\ phase_num' <= Len(phases')
        /\ schedule_dict' = schedule_dict

C5_ListIsComplete ==
    (ret.kind = "list") =>
        /\ pc = "done"
        /\ phase_num = Len(phases) + 1
        /\ Len(ret.events) = Len(unstripped)
        /\ \A ph \in {PHASE_1_FLEXIBLE, PHASE_2_REGULAR, PHASE_3_CRITICAL} :
              Cardinality({n \in 1..Len(unstripped) : EventPhase(unstripped[n]) = ph})
                  = ExpectedSessions(ph)

C5_AllOrNothing ==
    /\ [][C5_StepFails]_vars
    /\ [](C5_ListIsComplete)
    /\ []((pc = "done") => (ret.kind \in {"list", "impossible"}))
    /\ [][(pc = "phase" /\ attempt = 2 /\ pc' # "done") => phase_num' = phase_num + 1]_vars

\* a run that failed in its second phase, after the first phase had committed
C5_Witness ==
    /\ pc = "done"
    /\ ret = Impossible
    /\ phase_num = 2
    /\ combined_schedule # <<>>
    /\ progress_state = FAILED

\* C6 (progress monotonicity): every value written to the progress channel is
\* at least the value written before it, unless it is the failure value -1.
C6_ProgressMonotone ==
    \A i \in 1..(Len(progress_log) - 1) :
        progress_log[i + 1] >= progress_log[i] \/ progress_log[i + 1] = FAILED

\* C7 (atomic result replacement): every change of the result dictionary takes
\* it in one step to the mapping of the new schedule.
C7_AtomicReplacement ==
    [][schedule_dict' # schedule_dict => schedule_dict' = DictOf(combined_schedule)]_vars

\* C8 (sequential phases, ledger snapshot): phases are taken in ascending
\* phase value, and whenever the model of a phase is about to be built the
\* two ledgers and global_schedule hold exactly the slots and events of the
\* phases solved before it.
LedgerOf(sch, Key(_)) ==
    [k \in {Key(sch[n]) : n \in 1..Len(sch)} |->
        UNION {SlotsOf(sch[n]._start_slot, sch[n]._duration) :
                 n \in {n \in 1..Len(sch) : Key(sch[n]) = k}}]

EventSectionKey(ev) == <<ev.program, ev.year, ev.block>>
EventRoomKey(ev) == <<ev._room_type, ev._room_idx>>

C8_LedgerSnapshot ==
    (pc = "phase") =>
        /\ \A i, j \in 1..Len(phases) : i < j => phases[i] < phases[j]
        /\ phase_num \in 1..Len(phases)
        /\ global_schedule = combined_schedule
        /\ \A k \in SectionKeys :
              section_occupied[k] =
                  IF k \in DOMAIN LedgerOf(combined_schedule, EventSectionKey)
                  THEN LedgerOf(combined_schedule, EventSectionKey)[k] ELSE {}
        /\ \A k \in RoomKeys :
              occupied_slots[k] =
                  IF k \in DOMAIN LedgerOf(combined_schedule, EventRoomKey)
                  THEN LedgerOf(combined_schedule, EventRoomKey)[k] ELSE {}
        /\ \A q \in 1..Len(phases) :
              Cardinality({n \in 1..Len(combined_schedule) :
                              EventPhase(combined_schedule[n]) = phases[q]})
                  = IF q < phase_num THEN ExpectedSessions(phases[q]) ELSE 0

\* the second phase is about to be built on top of a committed first phase
C8_Witness ==
    /\ pc = "phase"
    /\ phase_num = 2
    /\ combined_schedule # <<>>
    /\ \E k \in RoomKeys : occupied_slots[k] # {}

\* C9 (per-day cap): in the schedule of a successful run, the events of one
\* (course, block, kind) that fall on one day are at most 1 for lectures and
\* at most 2 for laboratories.
C9_PerDayCap ==
    RunSucceeded =>
        \A i \in 1..Len(catalog.courses) :
            \A b \in 0..(catalog.courses[i].blocks - 1) :
                \A d \in 1..Len(days) :
                    /\ Cardinality({n \in EventsOf(unstripped, i, BlockLetter(b), "Lecture") :
                                        unstripped[n].day = days[d]}) <= 1
                    /\ Cardinality({n \in EventsOf(unstripped, i, BlockLetter(b), "Laboratory") :
                                        unstripped[n].day = days[d]}) <= 2

\* a successful run with the four laboratory meetings of a course of two lab
\* units, two of them on each day
C9_Witness ==
    /\ RunSucceeded
    /\ \E i \in 1..Len(catalog.courses) :
        /\ catalog.courses[i].unitsLab = 2
        /\ Cardinality(EventsOf(unstripped, i, "A", "Laboratory")) = 4
        /\ \A d \in 1..Len(days) :
              Cardinality({n \in EventsOf(unstripped, i, "A", "Laboratory") :
                              unstripped[n].day = days[d]}) = 2

\* C10 (room consistency): in the schedule of a successful run, all events of
\* one (course code, program, year, block, kind) are in one room.
C10_RoomConsistency ==
    RunSucceeded =>
        \A i, j \in 1..Len(unstripped) :
            (/\ unstripped[i].baseCourseCode = unstripped[j].baseCourseCode
             /\ SameSection(unstripped[i], unstripped[j])
             /\ unstripped[i].session = unstripped[j].session)
                => unstripped[i].room = unstripped[j].room

\* C11 (lab start set): every Laboratory event of a successful run starts at
\* one of the slots d*inc_day .. d*inc_day + inc_day - 3 of some day d, which
\* are the members of lab_starts, whether its start domain was filtered by
\* the ledger or came from the fallback.
LabStartSlots ==
    {d * inc_day + o : d \in 0..(Len(days) - 1), o \in 0..(inc_day - 3)}

C11_LabStartSet ==
    RunSucceeded =>
        /\ Range(lab_starts) = LabStartSlots
        /\ \A n \in 1..Len(unstripped) :
              (unstripped[n].session = "Laboratory")
                  => unstripped[n]._start_slot \in LabStartSlots

\* a successful run with a Laboratory event whose start domain came from the
\* fallback (it overlaps an event its section got in an earlier phase)
C11_Witness ==
    /\ RunSucceeded
    /\ \E i, j \in 1..Len(unstripped) :
        /\ unstripped[i].session = "Laboratory"
        /\ EventPhase(unstripped[j]) < EventPhase(unstripped[i])
        /\ SameSection(unstripped[i], unstripped[j])
        /\ EventsOverlap(unstripped[i], unstripped[j])

C14_EmptyInput ==
    (catalog.courses = <<>> /\ phase_num # 0) =>
        /\ phases = <<>>
        /\ pc \in {"finish", "clear", "update", "done"}
        /\ ret # Impossible
        /\ \A n \in 1..Len(progress_log) : progress_log[n] # FAILED
        /\ (pc = "done") =>
              /\ ret = ListOf(<<>>)
              /\ schedule_dict = <<>>
              /\ (process_id # "") =>
                    /\ progress_state = 100
                    /\ progress_log[Len(progress_log)] = 100

\* a finished run of an empty course list with a process id
C14_Witness ==
    /\ catalog.courses = <<>>
    /\ pc = "done"
    /\ phase_num # 0
    /\ process_id # ""
    /\ ret = ListOf(<<>>)
    /\ progress_log = <<5, 15, 25, 35, 45, 50, 52, 95, 100>>

\* C15 (no rooms): a run whose catalog has no room of a kind that one of its
\* courses needs never reaches the final sort: it returns "impossible" and
\* the last value of the progress channel is -1; every event ever committed
\* has a room index inside the catalog's list of its kind.
NeedsMissingRoom ==
    \E n \in 1..Len(catalog.courses) :
        \/ catalog.courses[n].unitsLecture > 0 /\ catalog.rooms.lecture = <<>>
        \/ catalog.courses[n].unitsLab > 0 /\ catalog.rooms.lab = <<>>

C15_NoRooms ==
    /\ (NeedsMissingRoom /\ phase_num # 0) =>
          /\ pc \in {"phase", "done"}
          /\ ret.kind # "list"
          /\ (pc = "done") =>
                /\ ret = Impossible
                /\ (process_id # "") =>
                      /\ progress_state = FAILED
                      /\ progress_log[Len(progress_log)] = FAILED
    /\ \A sch \in {unstripped} \cup (IF pc \in {"phase", "finish"}
                                     THEN {combined_schedule} ELSE {}) :
          \A n \in 1..Len(sch) :
              /\ sch[n]._room_idx \in 0 .. (Len(catalog.rooms[sch[n]._room_type]) - 1)
              /\ sch[n].room = catalog.rooms[sch[n]._room_type][sch[n]._room_idx + 1]

\* a run with a lecture course and an empty lecture-room list that called the
\* solver in both attempts of its first phase and returned "impossible"
C15_Witness ==
    /\ pc = "done"
    /\ catalog.rooms.lecture = <<>>
    /\ NeedsMissingRoom
    /\ phase_num = 1
    /\ solver_calls = 2
    /\ ret = Impossible
    /\ progress_state = FAILED

\* C16 (output ordering): the list returned by a successful run holds the
\* committed events, in non-decreasing order of (position of the event's day
\* in the days list, _start_slot) as they were before the internal fields
\* were deleted.
DayPosition(name) ==
    CHOOSE i \in 1..Len(catalog.days) :
        catalog.days[i] = name /\ \A j \in 1..(i - 1) : catalog.days[j] # name

C16_OutputOrdering ==
    RunSucceeded =>
        /\ Len(ret.events) = Len(unstripped)
        /\ \A n \in 1..Len(unstripped) : ret.events[n] = StripInternal(unstripped[n])
        /\ Range(ret.events) = Range(global_schedule)
        /\ \A i, j \in 1..Len(unstripped) :
              (i < j) =>
                 \/ DayPosition(unstripped[i].day) < DayPosition(unstripped[j].day)
                 \/ /\ DayPosition(unstripped[i].day) = DayPosition(unstripped[j].day)
                    /\ unstripped[i]._start_slot <= unstripped[j]._start_slot

\* a successful run whose events were committed in another order than the
\* one they are returned in
C16_Witness ==
    /\ RunSucceeded
    /\ Len(ret.events) >= 2
    /\ global_schedule # ret.events
    /\ \E i, j \in 1..Len(ret.events) :
          i < j /\ ret.events[i].schedule_id > ret.events[j].schedule_id

\* C17 (append-only ledger): no step of a run removes a slot from an entry of
\* section_occupied or of occupied_slots, and the slots of every committed
\* event are in the entries of its section and of its room until the run ends.
CommittedEvents ==
    IF pc \in {"clear", "update"} \/ RunSucceeded THEN unstripped
    ELSE combined_schedule

C17_EntriesGrow ==
    /\ \A k \in SectionKeys : section_occupied[k] \subseteq section_occupied'[k]
    /\ \A k \in RoomKeys : occupied_slots[k] \subseteq occupied_slots'[k]

C17_CommittedStayOccupied ==
    \A n \in 1..Len(CommittedEvents) :
        LET ev == CommittedEvents[n]
            slots == SlotsOf(ev._start_slot, ev._duration)
        IN /\ slots \subseteq section_occupied[EventSectionKey(ev)]
           /\ slots \subseteq occupied_slots[EventRoomKey(ev)]

C17_LedgerAppendOnly ==
    /\ [][C17_EntriesGrow]_vars
    /\ [](C17_CommittedStayOccupied)

\* a run that ended after an entry of the section ledger and an entry of the
\* room ledger had each been added to in two phases
C17_Witness ==
    /\ pc = "done"
    /\ \E i, j \in 1..Len(CommittedEvents) :
        /\ EventPhase(CommittedEvents[i]) # EventPhase(CommittedEvents[j])
        /\ SameSection(CommittedEvents[i], CommittedEvents[j])
        /\ SameRoom(CommittedEvents[i], CommittedEvents[j])
        /\ ~EventsOverlap(CommittedEvents[i], CommittedEvents[j])

\* C18 (partitioner output order): the list prioritize_and_partition_courses
\* returns is a permutation of the loaded courses, ordered by phase value
\* ascending and, within one phase, by the priority score year_level*1000 +
\* (units_lecture + 2*units_lab)*100 + units_lab*50 + blocks*10 descending.
ClaimedScore(c) ==
    c.yearLevel * 1000 + (c.unitsLecture + 2 * c.unitsLab) * 100
    + c.unitsLab * 50 + c.blocks * 10

C18_PartitionOrder ==
    (all_courses # <<>>) =>
        /\ Len(all_courses) = Len(catalog.courses)
        /\ {all_courses[n].idx : n \in 1..Len(all_courses)} = 1..Len(catalog.courses)
        /\ \A n \in 1..Len(all_courses) :
              all_courses[n].course = catalog.courses[all_courses[n].idx]
        /\ \A i, j \in 1..Len(all_courses) :
              (i < j) =>
                 \/ all_courses[i].phase < all_courses[j].phase
                 \/ /\ all_courses[i].phase = all_courses[j].phase
                    /\ ClaimedScore(all_courses[i].course)
                          >= ClaimedScore(all_courses[j].course)

\* a loaded list of two courses of one phase that comes out in the reverse
\* of its input order, the course with the higher score first
C18_Witness ==
    /\ pc = "loaded"
    /\ Len(all_courses) = 2
    /\ all_courses[1].idx = 2
    /\ all_courses[1].phase = all_courses[2].phase
    /\ ClaimedScore(all_courses[1].course) > ClaimedScore(all_courses[2].course)

\* C19 as stated (single-lecture boundary case): with one course of one
\* lecture unit, no lab unit and one block, one lecture room and one day, a
\* successful run outputs exactly one event, and that event starts at slot 0.
SingleLectureCase ==
    /\ Len(catalog.courses) = 1
    /\ catalog.courses[1].unitsLecture = 1
    /\ catalog.courses[1].unitsLab = 0
    /\ catalog.courses[1].blocks = 1
    /\ Len(catalog.rooms.lecture) = 1
    /\ Len(catalog.days) = 1

C19_SingleLectureSlotZero ==
    (SingleLectureCase /\ RunSucceeded) =>
        /\ Len(ret.events) = 1
        /\ Len(unstripped) = 1
        /\ unstripped[1]._start_slot = 0

\* C19 amended: in that case a successful run outputs exactly one event, a
\* Lecture in the one room on the one day, and it starts at one of the slots
\* 0 .. 2*(end_time - start_time) - 2, from which its two slots fit in the day.
C19_SingleLectureInDay ==
    (SingleLectureCase /\ RunSucceeded) =>
        /\ Len(ret.events) = 1
        /\ Len(unstripped) = 1
        /\ ret.events[1].session = "Lecture"
        /\ ret.events[1].room = catalog.rooms.lecture[1]
        /\ ret.events[1].day = catalog.days[1]
        /\ unstripped[1]._duration = 2
        /\ unstripped[1]._start_slot \in
              0 .. (2 * (catalog.time_settings.end_time
                            - catalog.time_settings.start_time) - 2)

\* a successful run of the single-lecture case whose event does not start at
\* slot 0
C19_Witness ==
    /\ SingleLectureCase
    /\ RunSucceeded
    /\ Len(unstripped) = 1
    /\ unstripped[1]._start_slot = 2

\* C20 (builder-level failure is immediate): when the model of a phase cannot
\* be built because a session's start domain is empty even after the
\* fallback, that step ends the phase in failure: no second attempt is made
\* and the model is not built again.
C20_BuilderFailureImmediate ==
    [][(pc = "phase" /\ ~BuildOK(CurGroups))
          => (pc' = "done" /\ ret' = Impossible)]_vars

\* C21 (two-attempt protocol): every phase starts with the feasibility
\* attempt; an attempt that produces no solution is followed by the optimize
\* attempt exactly when it was the feasibility attempt, and fails the phase
\* (and the run) exactly when it was the optimize attempt; the events a phase
\* adds are those of the attempt that succeeded, all sessions of the phase.
C21_NoSolutionStep ==
    (pc = "phase" /\ phase_num' = phase_num /\ vars' # vars) =>
        /\ combined_schedule' = combined_schedule
        /\ IF attempt = 1
           THEN attempt' = 2 /\ pc' = "phase" /\ ret' = ret
           ELSE pc' = "done" /\ ret' = Impossible

C21_SolutionStep ==
    (pc = "phase" /\ phase_num' # phase_num) =>
        /\ phase_num' = phase_num + 1
        /\ attempt' = 1
        /\ pc' \in {"phase", "finish"}
        /\ Len(combined_schedule') =
              Len(combined_schedule) + ExpectedSessions(phases[phase_num])
        /\ SubSeq(combined_schedule', 1, Len(combined_schedule)) = combined_schedule
        /\ \A n \in (Len(combined_schedule) + 1)..Len(combined_schedule') :
              /\ EventPhase(combined_schedule'[n]) = phases[phase_num]
              /\ combined_schedule'[n].schedule_id >= schedule_id

C21_PhaseEntry ==
    (pc # "phase" /\ pc' = "phase") => (attempt' = 1 /\ phase_num' = 1)

C21_TwoAttempts ==
    /\ []((pc = "phase") => (attempt \in {1, 2} /\ phase_num \in 1..Len(phases)))
    /\ [][C21_PhaseEntry]_vars
    /\ [][C21_NoSolutionStep]_vars
    /\ [][C21_SolutionStep]_vars

\* a successful run of one phase whose feasibility attempt got no solution
\* from the solver and whose optimize attempt got one
C21_Witness ==
    /\ RunSucceeded
    /\ Len(phases) = 1
    /\ solver_calls = 2
    /\ unstripped # <<>>
    /\ \A n \in 1..Len(unstripped) :
          unstripped[n].schedule_id > Len(unstripped)

\* C22 (get_available_time_slots): for every section, duration, kind and
\* max_slots (from 1 up) the call returns, in ascending order, the starts of
\* the search space (lab_starts for a lab, else 0..total_inc-duration) whose
\* slots are all absent from the section's ledger entry, cut to the first
\* max_slots of them, all of them when they are fewer; an attempt that only
\* makes such calls leaves the ledger as it was.
FreeStarts(section_key, duration, is_lab) ==
    {st \in (IF is_lab THEN Range(lab_starts) ELSE 0 .. (total_inc - duration)) :
        \A t \in st .. (st + duration - 1) : t \notin section_occupied[section_key]}

SlotCaps == {1, 2, MAX_SLOTS}

\* the sections of the courses of the catalogs, and one without courses
QueriedSections == Programs \X Years \X {BlockLetter(0), BlockLetter(1)}

C22_ReturnsFreeStarts ==
    \A section_key \in QueriedSections, duration \in {LECTURE_DURATION, LAB_DURATION},
       is_lab \in BOOLEAN, max_slots \in SlotCaps :
        LET r == get_available_time_slots(section_key, duration, is_lab, max_slots)
            free == FreeStarts(section_key, duration, is_lab)
        IN /\ Len(r) = Min2(Cardinality(free), max_slots)
           /\ \A n \in 1..Len(r) :
                 /\ r[n] \in free
                 /\ Cardinality({f \in free : f < r[n]}) = n - 1

C22_CallKeepsLedger ==
    (pc = "phase" /\ phase_num' = phase_num) => section_occupied' = section_occupied

C22_AvailableTimeSlots ==
    /\ [](C22_ReturnsFreeStarts)
    /\ [][C22_CallKeepsLedger]_vars

\* a phase is about to be built for a section whose ledger entry rules out
\* some lecture starts and leaves more than two, so that a call with
\* max_slots = 2 returns a proper prefix of the free starts
C22_Witness ==
    /\ pc = "phase"
    /\ \E section_key \in QueriedSections :
        /\ section_occupied[section_key] # {}
        /\ Cardinality(FreeStarts(section_key, LECTURE_DURATION, FALSE)) > 2
        /\ Len(get_available_time_slots(section_key, LECTURE_DURATION, FALSE, 2)) = 2
        /\ Len(get_available_time_slots(section_key, LECTURE_DURATION, FALSE, MAX_SLOTS))
              = Cardinality(FreeStarts(section_key, LECTURE_DURATION, FALSE))

\* C23 as stated (per-phase progress range): every value the course loop of
\* phase p of P writes is at least 50 + (p-1)*40/P and strictly less than
\* 50 + p*40/P.
PhaseProgressStart == 50 + ((phase_num - 1) * 40) \div Len(phases)
PhaseProgressEnd == 50 + (phase_num * 40) \div Len(phases)

\* the values an attempt step appends to the progress channel in its course
\* loop (the -1 of a failed run is written by solve(), after the loop)
LoopWrites ==
    SelectSeq(SubSeq(progress_log', Len(progress_log) + 1, Len(progress_log')),
              LAMBDA v : v # FAILED)

C23_ProgressHalfOpen ==
    [][(pc = "phase") =>
          \A n \in 1..Len(LoopWrites) :
              /\ LoopWrites[n] >= PhaseProgressStart
              /\ LoopWrites[n] < PhaseProgressEnd]_vars

\* C23 amended: every value the course loop of phase p of P writes is at
\* least 50 + (p-1)*40 div P and at most 50 + p*40 div P, and the value
\* written after the last course of the phase is that upper end.
C23_ProgressClosed ==
    [][(pc = "phase") =>
          /\ \A n \in 1..Len(LoopWrites) :
                /\ LoopWrites[n] >= PhaseProgressStart
                /\ LoopWrites[n] <= PhaseProgressEnd
          /\ (process_id # "" /\ BuildOK(CurGroups)) =>
                /\ Len(LoopWrites) = Len(CurCourses)
                /\ LoopWrites[Len(LoopWrites)] = PhaseProgressEnd]_vars

\* the second of two phases is in its optimize attempt; the loops of the
\* first phase and of the failed feasibility attempt wrote their upper ends,
\* 70 and 90
C23_Witness ==
    /\ pc = "phase"
    /\ Len(phases) = 2
    /\ phase_num = 2
    /\ attempt = 2
    /\ Len(progress_log) >= 2
    /\ progress_log[Len(progress_log)] = 90
    /\ progress_log[Len(progress_log) - 1] = 70

\* C24 (a failed attempt leaves the occupancy state alone): a phase attempt
\* that ends without a solution, in the builder or in the solver, leaves
\* section_occupied, occupied_slots and global_schedule as they were, so the
\* second attempt is built for the same courses against the same ledger,
\* rooms and time parameters as the first.
C24_FailedAttemptStep ==
    (pc = "phase" /\ phase_num' = phase_num) =>
        /\ section_occupied' = section_occupied
        /\ occupied_slots' = occupied_slots
        /\ global_schedule' = global_schedule
        /\ (pc' = "phase") =>
              /\ attempt' = 2
              /\ <<all_courses, phases, rooms, days, inc_day, total_inc, lab_starts>>'
                    = <<all_courses, phases, rooms, days, inc_day, total_inc, lab_starts>>

C24_FailedAttemptNoEffect == [][C24_FailedAttemptStep]_vars

\* the optimize attempt of the second phase is about to be built, after the
\* solver gave no solution in the feasibility attempt, against the ledger the
\* first phase left
C24_Witness ==
    /\ pc = "phase"
    /\ phase_num = 2
    /\ attempt = 2
    /\ solver_calls = 2
    /\ global_schedule # <<>>
    /\ global_schedule = combined_schedule
    /\ \E k \in SectionKeys : section_occupied[k] # {}
    /\ \E k \in RoomKeys : occupied_slots[k] # {}

\* C25 (a failed run leaves the result dictionary unchanged): when the run
\* returns "impossible", after a phase failure or a loader exception, the
\* result dictionary holds the entries it held when the run started; it is
\* written only by the clear and update steps, which a run that returns
\* "impossible" never takes.
C25_WrittenOnSuccessPath ==
    /\ (schedule_dict' # schedule_dict) => (pc \in {"clear", "update"} /\ ret = NoReturn)
    /\ (ret' = Impossible /\ ret # Impossible) =>
          (pc \in {"start", "phase"} /\ schedule_dict' = schedule_dict)
    /\ (ret = Impossible) => (vars' = vars)

C25_FailedRunKeepsDict ==
    /\ \A d \in PreviousDicts :
          (schedule_dict = d) => []((ret = Impossible) => (schedule_dict = d))
    /\ [][C25_WrittenOnSuccessPath]_vars

\* a run that started with the result of an earlier run in the dictionary,
\* committed its first phase, failed in its second and returned "impossible"
C25_Witness ==
    /\ pc = "done"
    /\ ret = Impossible
    /\ phase_num = 2
    /\ combined_schedule # <<>>
    /\ DOMAIN schedule_dict = {1}
    /\ schedule_dict[1] = StaleEvent

\* C26 (unique schedule ids): in the list a successful run returns no two
\* events have the same schedule_id, also when a phase needed its second
\* attempt, and the result dictionary has one entry per returned event.
C26_UniqueScheduleIds ==
    RunSucceeded =>
        /\ \A i, j \in 1..Len(ret.events) :
              (i # j) => ret.events[i].schedule_id # ret.events[j].schedule_id
        /\ Cardinality(DOMAIN schedule_dict) = Len(ret.events)
        /\ \A n \in 1..Len(ret.events) :
              /\ ret.events[n].schedule_id \in DOMAIN schedule_dict
              /\ schedule_dict[ret.events[n].schedule_id] = ret.events[n]
        /\ \A n \in 1..Len(ret.events) : ret.events[n].schedule_id < schedule_id

\* a successful run of two phases whose second phase needed its second
\* attempt: the ids of the failed attempt are missing from the output
C26_Witness ==
    /\ RunSucceeded
    /\ Len(phases) = 2
    /\ solver_calls = 3
    /\ \E n \in 1..Len(ret.events) : ret.events[n].schedule_id = 1
    /\ \E n \in 1..Len(ret.events) : ret.events[n].schedule_id > Len(ret.events)
    /\ Cardinality(DOMAIN schedule_dict) = Len(ret.events)

\* C27 (termination): when every solver call returns, every run ends with a
\* list or with "impossible", after at most two solver calls for each phase
\* and so at most six solver calls in all.
C27_SolverCallsBounded ==
    /\ Len(phases) <= 3
    /\ solver_calls <= 2 * Len(phases)
    /\ solver_calls <= 6
    /\ (pc = "phase") => solver_calls <= 2 * (phase_num - 1) + (attempt - 1)

C27_Termination ==
    /\ <>(pc = "done" /\ ret.kind \in {"list", "impossible"})
    /\ [](C27_SolverCallsBounded)
    /\ []((pc = "done") => (ret.kind \in {"list", "impossible"}))

\* a run of three phases that ended after six solver calls
C27_Witness ==
    /\ pc = "done"
    /\ Len(phases) = 3
    /\ solver_calls = 6
    /\ ret.kind \in {"list", "impossible"}

\* C28 (labels agree with the solved values): every committed event carries
\* the day name days[_start_slot div inc_day] and the room name at its
\* _room_idx in the room list of its own kind: Lecture events in lecture
\* rooms, Laboratory events in lab rooms.
C28_LabelsAgree ==
    \A n \in 1..Len(CommittedEvents) :
        LET ev == CommittedEvents[n]
            kind == IF ev.session = "Lecture" THEN "lecture" ELSE "lab"
        IN /\ ev.session \in {"Lecture", "Laboratory"}
           /\ ev._room_type = kind
           /\ ev._start_slot \div inc_day \in 0 .. (Len(catalog.days) - 1)
           /\ ev.day = catalog.days[(ev._start_slot \div inc_day) + 1]
           /\ ev._room_idx \in 0 .. (Len(catalog.rooms[kind]) - 1)
           /\ ev.room = catalog.rooms[kind][ev._room_idx + 1]

\* a successful run with a lecture on the third day in the second lecture
\* room and a laboratory meeting on the second day in the lab room
C28_Witness ==
    /\ RunSucceeded
    /\ \E i, j \in 1..Len(unstripped) :
        /\ unstripped[i].session = "Lecture"
        /\ unstripped[i].day = "Wed"
        /\ unstripped[i].room = "L2"
        /\ unstripped[j].session = "Laboratory"
        /\ unstripped[j].day = "Tue"
        /\ unstripped[j].room = "B1"

====
